---------------------------- MODULE Spec2Model ----------------------------
(***************************************************************************)
(* A state-machine model of the PlaneSweep engine (src/src/planesweep.cpp): *)
(* the entry points RunAlgorithm, Denoise, CudaDenoise, TGV,                *)
(* TGVdenoiseFromSparse and get3Dcoordinates, the depth-hypothesis sweep    *)
(* of PlaneSweepThread, the quantisation ConvertDepthtoUChar and the        *)
(* context reset cudaReset.                                                 *)
(*                                                                          *)
(* The image is one pixel wide and high: every kernel the engine launches   *)
(* is per-pixel, and the windowed NCC of a pixel is an input of the model.  *)
(* float is a binary floating-point format with a MantBits-bit significand, *)
(* round-to-nearest-even, values on the grid 2^-FracBits, NaN and the two   *)
(* infinities: the IEEE single format scaled down.                          *)
(***************************************************************************)
EXTENDS Integers, Sequences, FiniteSets, TLC

(***************************************************************************)
(* Bounds of the model.                                                     *)
(***************************************************************************)
\* significand bits of the model's float (24 in the program's float)
MantBits == 8
\* the model's floats are multiples of 2^-FracBits
FracBits == 8
\* largest numberplanes a configuration is drawn with
MaxPlanes == 4
\* largest number of loaded source views, and largest numberimages
MaxViews == 2
\* the number of hypotheses of a view the history keeps (above MaxPlanes)
MaxIter == 6
\* largest niters an iterative refiner is called with
MaxNiters == 2
\* largest warps TGV is called with
MaxWarps == 2
\* NCC scores are the levels 1..MaxNcc
MaxNcc == 2
\* the acceptance threshold nccthresh, as a level
NccThresh == 1
\* entry-point calls in one behaviour
MaxCalls == 2
\* source views folded in two orders (OrderSpec)
MaxFold == 3

(***************************************************************************)
(* Program constants.                                                       *)
(***************************************************************************)
UCHAR_MAX == 255

(***************************************************************************)
(* float: [cls |-> "fin", v |-> n] is the number n / 2^FracBits.            *)
(***************************************************************************)
Fin(n) == [cls |-> "fin", v |-> n]
QNAN == [cls |-> "nan", v |-> 0]
PInf == [cls |-> "inf", v |-> 1]
NInf == [cls |-> "inf", v |-> -1]

IsNaN(x) == x.cls = "nan"
IsInf(x) == x.cls = "inf"
IsFin(x) == x.cls = "fin"

Abs(n) == IF n < 0 THEN -n ELSE n
Sgn(n) == IF n < 0 THEN -1 ELSE IF n > 0 THEN 1 ELSE 0
Max2(a, b) == IF a < b THEN b ELSE a
Pow2(k) == 2 ^ k
One == Pow2(FracBits)

RECURSIVE BitLen(_)
BitLen(n) == IF n = 0 THEN 0 ELSE 1 + BitLen(n \div 2)

\* q >= 0 counts units of 2^-(FracBits+g); sticky says that the exact value
\* lies strictly above q. The result counts units of 2^-FracBits: the
\* nearest float, ties to the even significand.
RoundMagOf[q \in Nat, sticky \in BOOLEAN, g \in Nat] ==
    LET s == Max2(g, BitLen(q) - MantBits)
    IN  IF s = 0 THEN q
        ELSE LET base == q \div Pow2(s)
                 r    == q % Pow2(s)
                 half == Pow2(s - 1)
                 up   == \/ r > half
                         \/ r = half /\ sticky
                         \/ r = half /\ ~sticky /\ base % 2 = 1
             IN  (base + (IF up THEN 1 ELSE 0)) * Pow2(s - g)
RoundMag(q, sticky, g) == RoundMagOf[q, sticky, g]

\* The operations below are functions of float values: an operand is
\* computed once, before the operation, as the machine does.
Float == [cls : {"fin", "nan", "inf"}, v : Int]

FNegOf[x \in Float] == IF IsNaN(x) THEN QNAN ELSE [cls |-> x.cls, v |-> -x.v]
FNeg(x) == FNegOf[x]

FAddOf[a \in Float, b \in Float] ==
    IF IsNaN(a) \/ IsNaN(b) THEN QNAN
    ELSE IF IsInf(a) /\ IsInf(b) THEN (IF a.v = b.v THEN a ELSE QNAN)
    ELSE IF IsInf(a) THEN a
    ELSE IF IsInf(b) THEN b
    ELSE Fin(Sgn(a.v + b.v) * RoundMag(Abs(a.v + b.v), FALSE, 0))
FAdd(a, b) == FAddOf[a, b]

FSub(a, b) == FAdd(a, FNeg(b))

FMulOf[a \in Float, b \in Float] ==
    IF IsNaN(a) \/ IsNaN(b) THEN QNAN
    ELSE IF IsInf(a) \/ IsInf(b)
         THEN (IF a.v = 0 \/ b.v = 0 THEN QNAN
               ELSE IF Sgn(a.v) * Sgn(b.v) > 0 THEN PInf ELSE NInf)
    ELSE Fin(Sgn(a.v) * Sgn(b.v) * RoundMag(Abs(a.v) * Abs(b.v), FALSE, FracBits))
FMul(a, b) == FMulOf[a, b]

FDivOf[a \in Float, b \in Float] ==
    IF IsNaN(a) \/ IsNaN(b) THEN QNAN
    ELSE IF IsInf(a) THEN (IF IsInf(b) THEN QNAN
                           ELSE IF a.v * (IF b.v < 0 THEN -1 ELSE 1) > 0 THEN PInf ELSE NInf)
    ELSE IF IsInf(b) THEN Fin(0)
    ELSE IF b.v = 0 THEN (IF a.v = 0 THEN QNAN
                          ELSE IF a.v > 0 THEN PInf ELSE NInf)
    ELSE Fin(Sgn(a.v) * Sgn(b.v)
               * RoundMag((Abs(a.v) * Pow2(FracBits + 1)) \div Abs(b.v),
                          (Abs(a.v) * Pow2(FracBits + 1)) % Abs(b.v) # 0, 1))
FDiv(a, b) == FDivOf[a, b]

\* the comparisons of float: false as soon as one side is NaN
FLtOf[a \in Float, b \in Float] ==
    /\ ~IsNaN(a) /\ ~IsNaN(b)
    /\ IF IsInf(a) THEN a.v < 0 /\ ~(IsInf(b) /\ b.v < 0)
       ELSE IF IsInf(b) THEN b.v > 0
       ELSE a.v < b.v
FLt(a, b) == FLtOf[a, b]
FEqOf[a \in Float, b \in Float] == ~IsNaN(a) /\ ~IsNaN(b) /\ a = b
FEq(a, b) == FEqOf[a, b]
FLe(a, b) == FLt(a, b) \/ FEq(a, b)
FGt(a, b) == FLt(b, a)

\* std::min and std::max as the library defines them
StdMaxOf[a \in Float, b \in Float] == IF FLt(a, b) THEN b ELSE a
StdMax(a, b) == StdMaxOf[a, b]
StdMinOf[a \in Float, b \in Float] == IF FLt(b, a) THEN b ELSE a
StdMin(a, b) == StdMinOf[a, b]

\* an int converted to float
IntToFloat(n) == Fin(Sgn(n) * RoundMag(Abs(n) * One, FALSE, 0))
\* a float in [0, 256) converted to uchar: the fraction is dropped
FloatToUChar(x) == x.v \div One

(***************************************************************************)
(* Configurations: the members znear, zfar, numberplanes, numberimages and  *)
(* the number of loaded source views HostSrc.size().                        *)
(***************************************************************************)
ZnearVals == {Fin(One)}
ZfarVals == {Fin(One), Fin(2 * One), Fin(4 * One)}
Configs ==
    [znear : ZnearVals, zfar : ZfarVals, numberplanes : 1..MaxPlanes,
     numberimages : 0..MaxViews, nsrc : 0..MaxViews]
NccVals == 1..MaxNcc
\* the score of an accumulator no hypothesis has been folded into
NoScore == 0

(***************************************************************************)
(* Host images (CamImage): dim is 0 for an image never sized, 1 for an      *)
(* image of the reference view's size; px is the pixel.                     *)
(***************************************************************************)
NoImageF == [dim |-> 0, px |-> Fin(0)]
NoImageU == [dim |-> 0, px |-> 0]
\* CamImage::reset(w, h): an image of the given size, its old contents gone
ResetF == [dim |-> 1, px |-> Fin(0)]
ResetU == [dim |-> 1, px |-> 0]
ImageF(x) == [dim |-> 1, px |-> x]
ImageU(u) == [dim |-> 1, px |-> u]

\* no fold of views in two orders is under way
NoFold == [a |-> <<>>, b |-> <<>>, k |-> 0, accA |-> <<Fin(0), Fin(0)>>,
           accB |-> <<Fin(0), Fin(0)>>, depthA |-> Fin(0), depthB |-> Fin(0)]

\* the device fields of TGV that the warp loop resets, and the other ones
TGVFields == {"Px", "Py", "qx", "qy", "qz", "qw", "u1x", "u1y", "u1xbar", "u1ybar"}
\* no TGV call has run: zero says of a field that its last write set it to
\* 0 at every pixel, rzero the same of each view's r, prodsum holds the
\* <<iteration, view>> of the r updates that added into it, in order
NoTGV == [warps |-> 0, niters |-> 0, nimages |-> 0, l |-> 0, it |-> 0, j |-> 0,
          u |-> Fin(0), u0 |-> Fin(0), ubar |-> Fin(0),
          zero |-> [f \in TGVFields |-> FALSE], rzero |-> <<>>,
          prodsum |-> <<>>, exports |-> 0]

VARIABLES
    cfg,                    \* the configuration members
    depthmap, depthmap8u,   \* raw depth map and its 8-bit image
    depthmapdenoised, depthmap8udenoised,
    depthmapTGV, depthmap8uTGV,
    depthavailable,
    d_depthmap,             \* the device handle: "null", "live", "freed" or "stale"
    pc,                     \* position of the running call, "idle" between calls
    call,                   \* the entry point running, or the last one run
    ret,                    \* what the caller got: "none", "true", "false", "void", "exception"
    failed,                 \* the call met a failure
    resetDone,              \* cudaReset ran to its end during the call
    pre,                    \* the outputs at the call's entry
    ncalls,
    nimgs, i,               \* RunAlgorithm: views to process, view index
    d, dstep,               \* PlaneSweepThread: depth hypothesis and step
    devbestNCC, devDepth,   \* PlaneSweepThread: per-view best score and depth
    devDepthmap, devN,      \* RunAlgorithm: sum of depths and count
    hyp,                    \* history: <<d, ncc>> of the last MaxIter hypotheses of this view
    views,                  \* history: <<best score, depth>> of each swept view
    niters, it, work,       \* refiners: iterations asked, done, device field
    fold,                   \* two folds of the same views in two orders (OrderSpec)
    tgv,                    \* TGV: arguments, loop indices and device fields
    log                     \* the kernel launches of the running iteration, in order

config == <<cfg>>
outputs == <<depthmap, depthmap8u, depthmapdenoised, depthmap8udenoised,
             depthmapTGV, depthmap8uTGV>>
sweep == <<nimgs, i, d, dstep, devbestNCC, devDepth, devDepthmap, devN, hyp, views>>
refine == <<niters, it, work>>
aside == <<fold, tgv, log>>
vars == <<cfg, depthmap, depthmap8u, depthmapdenoised, depthmap8udenoised,
          depthmapTGV, depthmap8uTGV, depthavailable, d_depthmap, pc, call, ret,
          failed, resetDone, pre, ncalls, nimgs, i, d, dstep, devbestNCC,
          devDepth, devDepthmap, devN, hyp, views, niters, it, work, fold, tgv, log>>

Outputs ==
    [depthmap |-> depthmap, depthmap8u |-> depthmap8u,
     depthmapdenoised |-> depthmapdenoised, depthmap8udenoised |-> depthmap8udenoised,
     depthmapTGV |-> depthmapTGV, depthmap8uTGV |-> depthmap8uTGV]

Init ==
    /\ cfg \in Configs
    /\ depthmap = NoImageF /\ depthmap8u = NoImageU
    /\ depthmapdenoised = NoImageF /\ depthmap8udenoised = NoImageU
    /\ depthmapTGV = NoImageF /\ depthmap8uTGV = NoImageU
    /\ depthavailable = FALSE
    /\ d_depthmap = "null"
    /\ pc = "idle" /\ call = "none" /\ ret = "none"
    /\ failed = FALSE /\ resetDone = FALSE
    /\ pre = Outputs
    /\ ncalls = 0
    /\ nimgs = 0 /\ i = 0
    /\ d = Fin(0) /\ dstep = Fin(0)
    /\ devbestNCC = NoScore /\ devDepth = Fin(0)
    /\ devDepthmap = Fin(0) /\ devN = Fin(0)
    /\ hyp = <<>> /\ views = <<>>
    /\ niters = 0 /\ it = 0 /\ work = Fin(0)
    /\ fold = NoFold /\ tgv = NoTGV /\ log = <<>>

(***************************************************************************)
(* Kernels and helpers of the sweep.                                        *)
(***************************************************************************)
Min2(a, b) == IF b < a THEN b ELSE a

\* update_arrays: the pair (best score, depth) after folding in the NCC of
\* hypothesis dd
update_arrays(best, depth, ncc, dd) ==
    IF ncc > best THEN <<ncc, dd>> ELSE <<best, depth>>

\* sum_depthmap_NCC: the pair (sum, count) after folding in one view
sum_depthmap_NCC(sum, n, depth, best, thresh) ==
    IF best > thresh THEN <<FAdd(sum, depth), FAdd(n, Fin(One))>> ELSE <<sum, n>>

\* element_rdivide: the quotient per pixel
element_rdivide(a, b) == FDiv(a, b)

\* set_QNAN_value: a pixel that holds no number is the undefined sentinel
set_QNAN_value(x, value) == IF IsFin(x) THEN x ELSE QNAN

\* a float converted to uchar: outside [0, 256) and for NaN the conversion is
\* undefined, and the set holds what a build may store
UCharFrom[x \in Float] ==
    IF IsFin(x) /\ x.v >= 0 /\ x.v < (UCHAR_MAX + 1) * One
    THEN {FloatToUChar(x)}
    ELSE {0, UCHAR_MAX}
UCharOf(x) == UCharFrom[x]

\* the body of ConvertDepthtoUChar's loop: the values pixel x may be given
ConvertPixel_NoOffset(x, znear, zfar) ==
    IF FEq(x, x)
    THEN UCharOf(FMul(IntToFloat(UCHAR_MAX),
                      StdMin(StdMax(FDiv(x, FSub(zfar, znear)), Fin(0)), Fin(One))))
    ELSE {UCHAR_MAX}
ConvertPixel(x, znear, zfar) ==
    IF FEq(x, x)
    THEN UCharOf(FMul(IntToFloat(UCHAR_MAX),
                      StdMin(StdMax(FDiv(FSub(x, znear), FSub(zfar, znear)), Fin(0)),
                             Fin(One))))
    ELSE {UCHAR_MAX}

\* ConvertDepthtoUChar: the images output may become
ConvertDepthtoUChar(input, znear, zfar) ==
    IF input.dim = 0 THEN {NoImageU}
    ELSE {ImageU(u) : u \in ConvertPixel(input.px, znear, zfar)}

\* the number of source views RunAlgorithm and TGV process
NImgs_NoSourceCap(numberimages, nsrc) == Max2(numberimages, 1)
NImgs(numberimages, nsrc) == Min2(Max2(numberimages, 1), nsrc)

\* the step of the depth hypotheses
DStep(znear, zfar, numberplanes) ==
    FDiv(FSub(zfar, znear), IntToFloat(numberplanes - 1))

(***************************************************************************)
(* The ends of a call.                                                      *)
(***************************************************************************)
\* the locals of the sweep die with the call; the histories stay
ClearSweep ==
    /\ nimgs' = 0 /\ i' = 0 /\ d' = Fin(0) /\ dstep' = Fin(0)
    /\ devbestNCC' = NoScore /\ devDepth' = Fin(0) /\ hyp' = <<>>
\* the locals of a refiner die with the call; niters, the argument, stays
ClearRefine == niters' = niters /\ it' = 0 /\ work' = Fin(0)

\* The handle d_depthmap is "null" (0), "live" (a buffer of the current
\* context, not freed), "freed" (the value of a buffer given to cudaFree) or
\* "stale" (the value of a buffer of a context that has been reset).
\* lines 313 and 618: the member after cudaFree(d_depthmap) has returned,
\* cudaFree does not change the pointer it is given
Freed(h) == IF h = "null" THEN "null" ELSE "freed"

\* line 590: the handle h after a cudaDeviceReset that reports an error: the
\* context may or may not have been destroyed
AfterFailedReset(h) == IF h = "live" THEN {"live", "stale"} ELSE {h}

\* cudaReset with the member holding h: cudaDeviceReset, then
\* d_depthmap = 0; a failure of cudaDeviceReset is thrown before d_depthmap
\* is cleared
cudaResetFrom(h, resetThrows) ==
    IF resetThrows
    THEN resetDone' = FALSE /\ d_depthmap' \in AfterFailedReset(h)
    ELSE resetDone' = TRUE /\ d_depthmap' = "null"
cudaReset(resetThrows) == cudaResetFrom(d_depthmap, resetThrows)

\* the catch block of an entry point (and its no-device exit): cudaReset,
\* return false; what cudaReset throws leaves the entry point
CatchBlockFrom(h, resetThrows) ==
    /\ cudaResetFrom(h, resetThrows)
    /\ ret' = (IF resetThrows THEN "exception" ELSE "false")
    /\ pc' = "idle" /\ failed' = TRUE
CatchBlock(resetThrows) == CatchBlockFrom(d_depthmap, resetThrows)

\* lines 305-316 and 605-621: the values the member can hold when a step
\* up to cudaMallocPitch throws: cudaDevInit or cudaFree threw, or cudaFree
\* returned and cudaMallocPitch threw
HandleAtEarlyThrow == {d_depthmap, Freed(d_depthmap)}

\* return without a reset
Return(r, f) ==
    /\ pc' = "idle" /\ ret' = r /\ failed' = f
    /\ resetDone' = FALSE /\ d_depthmap' = d_depthmap

\* entering an entry point
Enter(name) ==
    /\ pc = "idle" /\ ncalls < MaxCalls
    /\ ncalls' = ncalls + 1 /\ call' = name /\ pre' = Outputs

(***************************************************************************)
(* RunAlgorithm and PlaneSweepThread.                                       *)
(***************************************************************************)
\* lines 247-249: the call of update_arrays with the view's pair, the
\* current NCC and the current hypothesis
SweepUpdate_BestForCurrent(best, depth, ncc, dd) == update_arrays(best, depth, best, dd)
SweepUpdate(best, depth, ncc, dd) == update_arrays(best, depth, ncc, dd)

\* lines 253-256: the call of sum_depthmap_NCC with the sums, the view's
\* pair and nccthresh
FoldView_SwapAccumulators(sum, n, depth, best) == sum_depthmap_NCC(n, sum, depth, best, NccThresh)
FoldView_NoThreshold(sum, n, depth, best) == sum_depthmap_NCC(sum, n, depth, best, NoScore - 1)
FoldView(sum, n, depth, best) == sum_depthmap_NCC(sum, n, depth, best, NccThresh)

\* lines 129-131: the averaged depth, then the undefined pixels
AveragedDepth_NoDivide(sum, n, zfar) == set_QNAN_value(sum, zfar)
AveragedDepth(sum, n, zfar) == set_QNAN_value(element_rdivide(sum, n), zfar)

\* lines 122-123 and 179-181: a float image constructed for the call (the
\* view) holds 0 whatever the image of the earlier call (view) held
NewAccumulator_CarriedOver(old) == old
NewAccumulator(old) == Fin(0)

\* lines 74-123: reset of depthmap, device initialisation, reference
\* statistics, accumulators
RunAlgorithm_BeginAs(outcome, rt) ==
    /\ Enter("RunAlgorithm")
    /\ depthmap' = IF outcome = "reset_throws" THEN depthmap ELSE ResetF
    /\ CASE outcome = "reset_throws" ->
              /\ Return("exception", TRUE)
              /\ UNCHANGED <<nimgs, i, devDepthmap, devN, views>>
         [] outcome \in {"no_device", "throws"} ->
              /\ CatchBlock(rt)
              /\ UNCHANGED <<nimgs, i, devDepthmap, devN, views>>
         [] outcome = "ok" ->
              /\ pc' = "ra_view" /\ ret' = "none" /\ failed' = FALSE
              /\ resetDone' = FALSE /\ d_depthmap' = d_depthmap
              /\ nimgs' = NImgs(cfg.numberimages, cfg.nsrc) /\ i' = 0
              /\ devDepthmap' = NewAccumulator(devDepthmap)
              /\ devN' = NewAccumulator(devN) /\ views' = <<>>
    /\ UNCHANGED <<aside, cfg, depthmap8u, depthmapdenoised, depthmap8udenoised,
                   depthmapTGV, depthmap8uTGV, depthavailable,
                   d, dstep, devbestNCC, devDepth, hyp, niters, it, work>>

RunAlgorithm_Begin ==
    \E outcome \in {"reset_throws", "no_device", "throws", "ok"}, rt \in BOOLEAN :
        RunAlgorithm_BeginAs(outcome, rt)

\* lines 166-200: the step, the per-view images, the first hypothesis
PlaneSweepThread_BeginAs(throws, rt) ==
    /\ pc = "ra_view" /\ i < nimgs
    /\ IF throws
       THEN /\ CatchBlock(rt) /\ ClearSweep
            /\ UNCHANGED <<devDepthmap, devN, views>>
       ELSE /\ dstep' = DStep(cfg.znear, cfg.zfar, cfg.numberplanes)
            /\ d' = cfg.znear
            /\ devbestNCC' = NoScore /\ devDepth' = NewAccumulator(devDepth)
            /\ hyp' = <<>>
            /\ pc' = "ra_sweep"
            /\ UNCHANGED <<ret, failed, resetDone, d_depthmap, nimgs, i,
                           devDepthmap, devN, views>>
    /\ UNCHANGED <<aside, cfg, outputs, depthavailable, call, pre, ncalls, refine>>

PlaneSweepThread_Begin ==
    \E throws \in BOOLEAN, rt \in BOOLEAN : PlaneSweepThread_BeginAs(throws, rt)

\* lines 200-251: one depth hypothesis; ncc is the NCC the kernels give the
\* pixel at this hypothesis
SweepStepAs(ncc, throws, rt) ==
    /\ pc = "ra_sweep" /\ FLe(d, cfg.zfar)
    /\ IF throws
       THEN /\ CatchBlock(rt) /\ ClearSweep
            /\ UNCHANGED <<devDepthmap, devN, views>>
       ELSE LET upd == SweepUpdate(devbestNCC, devDepth, ncc, d)
            IN  /\ devbestNCC' = upd[1] /\ devDepth' = upd[2]
                /\ d' = FAdd(d, dstep)
                /\ hyp' = Append(IF Len(hyp) < MaxIter THEN hyp ELSE Tail(hyp), <<d, ncc>>)
                /\ UNCHANGED <<pc, ret, failed, resetDone, d_depthmap, nimgs, i,
                               dstep, devDepthmap, devN, views>>
    /\ UNCHANGED <<aside, cfg, outputs, depthavailable, call, pre, ncalls, refine>>

SweepStep ==
    \E ncc \in NccVals, throws \in BOOLEAN, rt \in BOOLEAN : SweepStepAs(ncc, throws, rt)

\* lines 253-258: the loop is left, the view is folded into the sums
PlaneSweepThread_End ==
    /\ pc = "ra_sweep" /\ ~FLe(d, cfg.zfar)
    /\ LET acc == FoldView(devDepthmap, devN, devDepth, devbestNCC)
       IN  /\ devDepthmap' = acc[1] /\ devN' = acc[2]
    /\ views' = Append(views, <<devbestNCC, devDepth>>)
    /\ i' = i + 1
    /\ pc' = "ra_view"
    /\ UNCHANGED <<aside, cfg, outputs, depthavailable, d_depthmap, call, ret, failed,
                   resetDone, pre, ncalls, nimgs, d, dstep, devbestNCC, devDepth,
                   hyp, refine>>

\* lines 129-148: the average, the undefined pixels, the copy to the host
RunAlgorithm_FinishAs(throws, rt) ==
    /\ pc = "ra_view" /\ i >= nimgs
    /\ IF throws
       THEN /\ CatchBlock(rt)
            /\ UNCHANGED <<depthmap, depthmap8u, depthavailable>>
       ELSE /\ depthmap' = ImageF(AveragedDepth(devDepthmap, devN, cfg.zfar))
            /\ depthmap8u' \in ConvertDepthtoUChar(depthmap', cfg.znear, cfg.zfar)
            /\ depthavailable' = TRUE
            /\ Return("true", FALSE)
    /\ ClearSweep
    /\ UNCHANGED <<aside, cfg, depthmapdenoised, depthmap8udenoised, depthmapTGV,
                   depthmap8uTGV, call, pre, ncalls, devDepthmap, devN, views, refine>>

RunAlgorithm_Finish ==
    \E throws \in BOOLEAN, rt \in BOOLEAN : RunAlgorithm_FinishAs(throws, rt)

\* a step of RunAlgorithm in which nothing fails
RunAlgorithm_Progress ==
    \/ RunAlgorithm_BeginAs("ok", FALSE)
    \/ PlaneSweepThread_BeginAs(FALSE, FALSE)
    \/ \E ncc \in NccVals : SweepStepAs(ncc, FALSE, FALSE)
    \/ PlaneSweepThread_End
    \/ RunAlgorithm_FinishAs(FALSE, FALSE)

(***************************************************************************)
(* Denoise (OpenCV) and CudaDenoise (TVL1).                                 *)
(***************************************************************************)
\* the values a refiner's update kernels may leave in the pixel of a
\* normalised field
RefinedVals == {Fin(0), Fin(One)}

\* lines 261-277; found says whether the build has OpenCV, u is what
\* cv::denoise_TVL1 writes
Denoise ==
    /\ Enter("Denoise")
    /\ \E found \in BOOLEAN, u \in {0, UCHAR_MAX} :
          IF found /\ depthavailable
          THEN /\ depthmap8udenoised' = ImageU(u)
               /\ Return("true", FALSE)
          ELSE /\ depthmap8udenoised' = depthmap8udenoised
               /\ Return("false", TRUE)
    /\ UNCHANGED <<aside, cfg, depthmap, depthmap8u, depthmapdenoised, depthmapTGV,
                   depthmap8uTGV, depthavailable, sweep, refine>>

\* lines 337-344: d_depthmap after the normalisation of the raw depth
Normalise(x, znear, zfar) ==
    FMul(FAdd(x, FNeg(znear)), FDiv(Fin(One), FSub(zfar, znear)))

\* lines 355-356: d_depthmap after the de-normalisation
Denormalise(x, znear, zfar) ==
    FAdd(FMul(x, FSub(zfar, znear)), znear)

\* lines 297-344: the depthavailable test, device initialisation, the
\* allocation of d_depthmap, the reset of the outputs, the normalisation
CudaDenoise_Begin ==
    /\ Enter("CudaDenoise")
    /\ \E n \in 0..MaxNiters, rt \in BOOLEAN,
          outcome \in {"no_device", "throws_early", "throws_late", "ok"} :
          IF ~depthavailable
          THEN /\ Return("false", TRUE)
               /\ UNCHANGED <<depthmapdenoised, depthmap8udenoised, refine>>
          ELSE CASE outcome = "no_device" ->
                      /\ CatchBlock(rt)
                      /\ UNCHANGED <<depthmapdenoised, depthmap8udenoised, refine>>
                 [] outcome = "throws_early" ->
                      /\ \E h \in HandleAtEarlyThrow : CatchBlockFrom(h, rt)
                      /\ UNCHANGED <<depthmapdenoised, depthmap8udenoised, refine>>
                 [] outcome = "throws_late" ->
                      /\ CatchBlockFrom("live", rt)
                      /\ depthmapdenoised' = ResetF /\ depthmap8udenoised' = ResetU
                      /\ UNCHANGED refine
                 [] outcome = "ok" ->
                      /\ d_depthmap' = "live"
                      /\ depthmapdenoised' = ResetF /\ depthmap8udenoised' = ResetU
                      /\ work' = Normalise(depthmap.px, cfg.znear, cfg.zfar)
                      /\ niters' = n /\ it' = 0
                      /\ pc' = "cd_loop" /\ ret' = "none" /\ failed' = FALSE
                      /\ resetDone' = FALSE
    /\ log' = <<>>
    /\ UNCHANGED <<fold, tgv, cfg, depthmap, depthmap8u, depthmapTGV, depthmap8uTGV,
                   depthavailable, sweep>>

\* line 347: the dual step the P update of iteration k is called with
CurrSigma_Constant(k) == "sigma"
CurrSigma(k) == IF k = 0 THEN "1+sigma" ELSE "sigma"

\* lines 346-353: one iteration, the P update and the primal update
CudaDenoise_Iter ==
    /\ pc = "cd_loop" /\ it < niters
    /\ \E throws \in BOOLEAN, rt \in BOOLEAN, v \in RefinedVals :
          IF throws
          THEN CatchBlock(rt) /\ ClearRefine /\ log' = log
          ELSE /\ work' = v /\ it' = it + 1
               /\ log' = log \o <<[op |-> "P", step |-> CurrSigma(it)],
                                  [op |-> "update", step |-> "sigma"]>>
               /\ UNCHANGED <<pc, ret, failed, resetDone, d_depthmap, niters>>
    /\ UNCHANGED <<fold, tgv, cfg, outputs, depthavailable, call, pre, ncalls, sweep>>

\* lines 355-366: de-normalisation, copy to the host, 8-bit image
CudaDenoise_Finish ==
    /\ pc = "cd_loop" /\ it >= niters
    /\ \E throws \in BOOLEAN, rt \in BOOLEAN :
          IF throws
          THEN /\ CatchBlock(rt)
               /\ UNCHANGED <<depthmapdenoised, depthmap8udenoised>>
          ELSE /\ depthmapdenoised' = ImageF(Denormalise(work, cfg.znear, cfg.zfar))
               /\ depthmap8udenoised' \in
                      ConvertDepthtoUChar(depthmapdenoised', cfg.znear, cfg.zfar)
               /\ Return("true", FALSE)
    /\ ClearRefine
    /\ UNCHANGED <<aside, cfg, depthmap, depthmap8u, depthmapTGV, depthmap8uTGV,
                   depthavailable, call, pre, ncalls, sweep>>

(***************************************************************************)
(* TGV, TGVdenoiseFromSparse and get3Dcoordinates.                          *)
(***************************************************************************)
\* line 409: the number of source views TGV uses
TGVImages(numberimages, nsrc) == Min2(Max2(numberimages, 1), nsrc)

\* line 414: the initial estimate of u
TGVInitialEstimate_Zero == Fin(0)
TGVInitialEstimate == Fin(One)

\* lines 449-458: the fields the warp loop sets to 0
WarpResetFields_NoBars == {"Px", "Py", "qx", "qy", "qz", "qw", "u1x", "u1y"}
WarpResetFields == {"Px", "Py", "qx", "qy", "qz", "qw", "u1x", "u1y", "u1xbar", "u1ybar"}

\* lines 488-489, 492-493, 501 and 505-508: the fields the P, Q, r and
\* primal updates read besides the ones they update, the fields they write
ReadsOfP_Plain == <<"u", "u1x", "u1y">>
ReadsOfP == <<"ubar", "u1xbar", "u1ybar">>
ReadsOfQ == <<"u1xbar", "u1ybar">>
ReadsOfR == <<"u", "u0">>
ReadsOfU == <<"Px", "Py", "qx", "qy", "qz", "qw", "prodsum">>
WritesOfU == <<"u", "u1x", "u1y", "ubar", "u1xbar", "u1ybar">>
\* a kernel launch: its fields, the view it is for (-1 when for none)
Launch(op, reads, writes, view) ==
    [op |-> op, reads |-> reads, writes |-> writes, view |-> view]

\* line 513: the field copied to depthmapTGV
TGVExport_Bar(u, ubar) == ubar
TGVExport(u, ubar) == u

\* the values the primal update may leave in the pixel of u
TGVVals == {Fin(One), Fin(2 * One)}

\* what stays of the TGV record when the call has returned
TGVSummary(t) ==
    [NoTGV EXCEPT !.warps = t.warps, !.niters = t.niters, !.nimages = t.nimages,
                  !.u = t.u, !.exports = t.exports]

\* lines 381-440: device initialisation, reset of the outputs, the fields,
\* the initial estimate, the source views
TGV_Begin ==
    /\ Enter("TGV")
    /\ \E rt \in BOOLEAN, w \in 0..MaxWarps, n \in 0..MaxNiters,
          outcome \in {"no_device", "throws_early", "throws_late", "ok"} :
          CASE outcome \in {"no_device", "throws_early"} ->
                  /\ CatchBlock(rt)
                  /\ UNCHANGED <<depthmapTGV, depthmap8uTGV>>
                  /\ tgv' = NoTGV
            [] outcome = "throws_late" ->
                  /\ CatchBlock(rt)
                  /\ depthmapTGV' = ResetF /\ depthmap8uTGV' = ResetU
                  /\ tgv' = NoTGV
            [] outcome = "ok" ->
                  /\ depthmapTGV' = ResetF /\ depthmap8uTGV' = ResetU
                  /\ tgv' = [NoTGV EXCEPT
                                !.warps = w, !.niters = n,
                                !.nimages = TGVImages(cfg.numberimages, cfg.nsrc),
                                !.u = TGVInitialEstimate, !.ubar = TGVInitialEstimate,
                                !.rzero = [v \in 1..TGVImages(cfg.numberimages, cfg.nsrc)
                                              |-> FALSE]]
                  /\ pc' = "tgv_warp" /\ ret' = "none" /\ failed' = FALSE
                  /\ resetDone' = FALSE /\ d_depthmap' = d_depthmap
    /\ log' = <<>>
    /\ UNCHANGED <<fold, cfg, depthmap, depthmap8u, depthmapdenoised, depthmap8udenoised,
                   depthavailable, sweep, refine>>

\* lines 442-458: a warp pass starts, u0 and ubar are copies of u, the
\* duals and the auxiliary primal fields are set to 0
TGV_WarpBegin ==
    /\ pc = "tgv_warp" /\ tgv.l < tgv.warps
    /\ \E throws \in BOOLEAN, rt \in BOOLEAN :
          IF throws
          THEN CatchBlock(rt) /\ tgv' = NoTGV
          ELSE /\ tgv' = [tgv EXCEPT
                             !.u0 = tgv.u, !.ubar = tgv.u,
                             !.zero = [f \in TGVFields |->
                                          IF f \in WarpResetFields THEN TRUE
                                          ELSE tgv.zero[f]]]
               /\ pc' = "tgv_lin"
               /\ UNCHANGED <<ret, failed, resetDone, d_depthmap>>
    /\ UNCHANGED <<fold, log, cfg, outputs, depthavailable, call, pre, ncalls,
                   sweep, refine>>

\* lines 460-483: the linearisation at u0 for every source view, r set to 0
TGV_Linearise ==
    /\ pc = "tgv_lin"
    /\ tgv' = [tgv EXCEPT !.rzero = [v \in 1..tgv.nimages |-> TRUE], !.it = 0]
    /\ pc' = "tgv_iter"
    /\ UNCHANGED <<fold, log, cfg, outputs, depthavailable, d_depthmap, call, ret,
                   failed, resetDone, pre, ncalls, sweep, refine>>

\* lines 485-489: an inner iteration starts with the P update
TGV_UpdateP ==
    /\ pc = "tgv_iter" /\ tgv.it < tgv.niters
    /\ tgv' = [tgv EXCEPT !.zero["Px"] = FALSE, !.zero["Py"] = FALSE]
    /\ log' = <<Launch("P", ReadsOfP, <<"Px", "Py">>, 0 - 1)>>
    /\ pc' = "tgv_q"
    /\ UNCHANGED <<fold, cfg, outputs, depthavailable, d_depthmap, call, ret,
                   failed, resetDone, pre, ncalls, sweep, refine>>

\* lines 491-493: the Q update
TGV_UpdateQ ==
    /\ pc = "tgv_q"
    /\ tgv' = [tgv EXCEPT !.zero["qx"] = FALSE, !.zero["qy"] = FALSE,
                          !.zero["qz"] = FALSE, !.zero["qw"] = FALSE]
    /\ log' = Append(log, Launch("Q", ReadsOfQ, <<"qx", "qy", "qz", "qw">>, 0 - 1))
    /\ pc' = "tgv_s"
    /\ UNCHANGED <<fold, cfg, outputs, depthavailable, d_depthmap, call, ret,
                   failed, resetDone, pre, ncalls, sweep, refine>>

\* lines 495-496: prodsum is set to 0
TGV_ResetProdsum ==
    /\ pc = "tgv_s"
    /\ tgv' = [tgv EXCEPT !.prodsum = <<>>, !.j = 0]
    /\ log' = Append(log, Launch("set_value", <<>>, <<"prodsum">>, 0 - 1))
    /\ pc' = "tgv_r"
    /\ UNCHANGED <<fold, cfg, outputs, depthavailable, d_depthmap, call, ret,
                   failed, resetDone, pre, ncalls, sweep, refine>>

\* lines 498-502: the r update of view j, which adds into prodsum
TGV_UpdateR ==
    /\ pc = "tgv_r" /\ tgv.j < tgv.nimages
    /\ tgv' = [tgv EXCEPT !.rzero[tgv.j + 1] = FALSE,
                          !.prodsum = Append(tgv.prodsum, <<tgv.it, tgv.j>>),
                          !.j = tgv.j + 1]
    /\ log' = Append(log, Launch("R", ReadsOfR, <<"r", "prodsum">>, tgv.j))
    /\ UNCHANGED <<fold, cfg, outputs, depthavailable, d_depthmap, pc, call, ret,
                   failed, resetDone, pre, ncalls, sweep, refine>>

\* lines 504-509: the primal update of u, u1x, u1y and of the over-relaxed
\* ubar, u1xbar, u1ybar; v is what the kernel leaves in u
TGV_UpdateU ==
    /\ pc = "tgv_r" /\ tgv.j >= tgv.nimages
    /\ \E v \in TGVVals :
          tgv' = [tgv EXCEPT !.u = v, !.ubar = FSub(FAdd(v, v), tgv.u),
                             !.zero["u1x"] = FALSE, !.zero["u1y"] = FALSE,
                             !.zero["u1xbar"] = FALSE, !.zero["u1ybar"] = FALSE,
                             !.it = tgv.it + 1]
    /\ log' = Append(log, Launch("U", ReadsOfU, WritesOfU, 0 - 1))
    /\ pc' = "tgv_iter"
    /\ UNCHANGED <<fold, cfg, outputs, depthavailable, d_depthmap, call, ret,
                   failed, resetDone, pre, ncalls, sweep, refine>>

\* line 509-510: the inner loop is left, the next warp pass
TGV_WarpEnd ==
    /\ pc = "tgv_iter" /\ tgv.it >= tgv.niters
    /\ tgv' = [tgv EXCEPT !.l = tgv.l + 1]
    /\ pc' = "tgv_warp"
    /\ UNCHANGED <<fold, log, cfg, outputs, depthavailable, d_depthmap, call, ret,
                   failed, resetDone, pre, ncalls, sweep, refine>>

\* lines 512-536: the copy of u to the host, the 8-bit image
TGV_Finish ==
    /\ pc = "tgv_warp" /\ tgv.l >= tgv.warps
    /\ \E throws \in BOOLEAN, rt \in BOOLEAN :
          IF throws
          THEN /\ CatchBlock(rt)
               /\ UNCHANGED <<depthmapTGV, depthmap8uTGV>>
               /\ tgv' = TGVSummary(tgv)
          ELSE /\ depthmapTGV' = ImageF(TGVExport(tgv.u, tgv.ubar))
               /\ depthmap8uTGV' \in ConvertDepthtoUChar(depthmapTGV', cfg.znear, cfg.zfar)
               /\ tgv' = TGVSummary([tgv EXCEPT !.exports = tgv.exports + 1])
               /\ Return("true", FALSE)
    /\ log' = <<>>
    /\ UNCHANGED <<fold, cfg, depthmap, depthmap8u, depthmapdenoised, depthmap8udenoised,
                   depthavailable, call, pre, ncalls, sweep, refine>>

\* lines 642-648: the buffers the launches of an iteration are called with:
\* the P update reads d_depthmap, vxbar, vybar; the primal update is given
\* d_depthmap, vxbar, vybar, ubar, vxbar, vybar where the one of TGV is
\* given u, u1x, u1y, ubar, u1xbar, u1ybar
SparseReadsOfP == <<"d_depthmap", "vxbar", "vybar">>
SparseReadsOfQ == <<"vxbar", "vybar">>
SparseReadsOfU == <<"px", "py", "qx", "qy", "qz", "qw", "weights", "Ds">>
SparseWritesOfU == <<"d_depthmap", "vxbar", "vybar", "ubar", "vxbar", "vybar">>

\* lines 641-649: the launches of n iterations
RECURSIVE SparseLaunches(_)
SparseLaunches(n) ==
    IF n = 0 THEN <<>>
    ELSE SparseLaunches(n - 1) \o
         <<Launch("P", SparseReadsOfP, <<"px", "py">>, 0 - 1),
           Launch("Q", SparseReadsOfQ, <<"qx", "qy", "qz", "qw">>, 0 - 1),
           Launch("U", SparseReadsOfU, SparseWritesOfU, 0 - 1)>>

\* lines 596-674; n is niters, v the field the update kernels leave
TGVdenoiseFromSparse ==
    /\ Enter("TGVdenoiseFromSparse")
    /\ \E rt \in BOOLEAN, n \in 0..MaxNiters, v \in RefinedVals,
          outcome \in {"no_device", "throws_early", "throws_late", "ok"} :
          CASE outcome \in {"no_device", "throws_early"} ->
                  /\ CatchBlock(rt) /\ log' = <<>>
                  /\ UNCHANGED <<depthmapTGV, depthmap8uTGV>>
            [] outcome = "throws_late" ->
                  /\ \E h \in HandleAtEarlyThrow \cup {"live"} : CatchBlockFrom(h, rt)
                  /\ log' = <<>>
                  /\ depthmapTGV' = ResetF /\ depthmap8uTGV' = depthmap8uTGV
            [] outcome = "ok" ->
                  /\ LET ubar == FMul(depthmap.px, FDiv(Fin(One), cfg.zfar))
                         last == IF n = 0 THEN ubar ELSE v
                     IN  depthmapTGV' = ImageF(FMul(last, cfg.zfar))
                  /\ depthmap8uTGV' \in ConvertDepthtoUChar(depthmapTGV', cfg.znear, cfg.zfar)
                  /\ log' = SparseLaunches(n)
                  /\ pc' = "idle" /\ ret' = "true" /\ failed' = FALSE
                  /\ resetDone' = FALSE /\ d_depthmap' = "live"
    /\ UNCHANGED <<fold, tgv, cfg, depthmap, depthmap8u, depthmapdenoised, depthmap8udenoised,
                   depthavailable, sweep, refine>>

\* lines 551-586: the function returns nothing
get3Dcoordinates ==
    /\ Enter("get3Dcoordinates")
    /\ \E throws \in BOOLEAN, rt \in BOOLEAN :
          IF throws
          THEN /\ cudaReset(rt)
               /\ ret' = (IF rt THEN "exception" ELSE "void")
               /\ pc' = "idle" /\ failed' = TRUE
          ELSE Return("void", FALSE)
    /\ UNCHANGED <<aside, cfg, outputs, depthavailable, sweep, refine>>

Next ==
    \/ RunAlgorithm_Begin
    \/ PlaneSweepThread_Begin
    \/ SweepStep
    \/ PlaneSweepThread_End
    \/ RunAlgorithm_Finish
    \/ Denoise
    \/ CudaDenoise_Begin
    \/ CudaDenoise_Iter
    \/ CudaDenoise_Finish
    \/ TGV_Begin
    \/ TGV_WarpBegin
    \/ TGV_Linearise
    \/ TGV_UpdateP
    \/ TGV_UpdateQ
    \/ TGV_ResetProdsum
    \/ TGV_UpdateR
    \/ TGV_UpdateU
    \/ TGV_WarpEnd
    \/ TGV_Finish
    \/ TGVdenoiseFromSparse
    \/ get3Dcoordinates

Spec == Init /\ [][Next]_vars

\* RunAlgorithm alone (SweepSpec); in FairSpec a running call goes on
\* executing: its next statement is taken
RunNext ==
    \/ RunAlgorithm_Begin
    \/ PlaneSweepThread_Begin
    \/ SweepStep
    \/ PlaneSweepThread_End
    \/ RunAlgorithm_Finish
\* the engine before its last call
RunInit ==
    /\ cfg \in Configs
    /\ depthmap = NoImageF /\ depthmap8u = NoImageU
    /\ depthmapdenoised = NoImageF /\ depthmap8udenoised = NoImageU
    /\ depthmapTGV = NoImageF /\ depthmap8uTGV = NoImageU
    /\ depthavailable = FALSE
    /\ d_depthmap = "null"
    /\ pc = "idle" /\ call = "none" /\ ret = "none"
    /\ failed = FALSE /\ resetDone = FALSE
    /\ pre = Outputs
    /\ ncalls = MaxCalls - 1
    /\ nimgs = 0 /\ i = 0
    /\ d = Fin(0) /\ dstep = Fin(0)
    /\ devbestNCC = NoScore /\ devDepth = Fin(0)
    /\ devDepthmap = Fin(0) /\ devN = Fin(0)
    /\ hyp = <<>> /\ views = <<>>
    /\ niters = 0 /\ it = 0 /\ work = Fin(0)
    /\ fold = NoFold /\ tgv = NoTGV /\ log = <<>>
SweepSpec == RunInit /\ [][RunNext]_vars

\* one call of TGV
TGVNext ==
    \/ TGV_Begin
    \/ TGV_WarpBegin
    \/ TGV_Linearise
    \/ TGV_UpdateP
    \/ TGV_UpdateQ
    \/ TGV_ResetProdsum
    \/ TGV_UpdateR
    \/ TGV_UpdateU
    \/ TGV_WarpEnd
    \/ TGV_Finish
TGVSpec == RunInit /\ [][TGVNext]_vars

\* one call of either entry point that uses the source views
ViewsNext == RunNext \/ TGVNext
ViewsSpec == RunInit /\ [][ViewsNext]_vars
FairSpec == SweepSpec /\ WF_vars(RunAlgorithm_Progress)

\* the engine with one of the configurations cs, n calls made so far
InitWith(cs, n) ==
    /\ cfg \in cs
    /\ depthmap = NoImageF /\ depthmap8u = NoImageU
    /\ depthmapdenoised = NoImageF /\ depthmap8udenoised = NoImageU
    /\ depthmapTGV = NoImageF /\ depthmap8uTGV = NoImageU
    /\ depthavailable = FALSE
    /\ d_depthmap = "null"
    /\ pc = "idle" /\ call = "none" /\ ret = "none"
    /\ failed = FALSE /\ resetDone = FALSE
    /\ pre = Outputs
    /\ ncalls = n
    /\ nimgs = 0 /\ i = 0 /\ d = Fin(0) /\ dstep = Fin(0)
    /\ devbestNCC = NoScore /\ devDepth = Fin(0)
    /\ devDepthmap = Fin(0) /\ devN = Fin(0)
    /\ hyp = <<>> /\ views = <<>>
    /\ niters = 0 /\ it = 0 /\ work = Fin(0)
    /\ fold = NoFold /\ tgv = NoTGV /\ log = <<>>

\* two calls of RunAlgorithm, one after the other, two source views loaded
TwoRunsConfigs ==
    {c \in Configs : c.numberplanes \in {2, 3} /\ c.nsrc = 2 /\ c.numberimages \in {0, 2}}
TwoRunsInit == InitWith(TwoRunsConfigs, MaxCalls - 2)
TwoRunsSpec == TwoRunsInit /\ [][RunNext]_vars

\* two calls, each of RunAlgorithm or of CudaDenoise, one source view loaded
DenoiseNext ==
    \/ RunNext
    \/ CudaDenoise_Begin
    \/ CudaDenoise_Iter
    \/ CudaDenoise_Finish
DenoiseConfigs ==
    {c \in Configs : c.numberplanes = 2 /\ c.nsrc = 1 /\ c.numberimages = 1}
DenoiseInit == InitWith(DenoiseConfigs, MaxCalls - 2)
DenoiseSpec == DenoiseInit /\ [][DenoiseNext]_vars

(***************************************************************************)
(* ConvertDepthtoUChar on its own: a configuration with znear < zfar and an *)
(* input image holding any float of the range, any the infinities or NaN.   *)
(***************************************************************************)
QuantInputs ==
    {Fin(n) : n \in {m \in (0 - One)..(5 * One) :
                        m % 4 = 0 /\ RoundMag(Abs(m), FALSE, 0) = Abs(m)}}
        \cup {QNAN, PInf, NInf}

QuantInit ==
    /\ cfg \in {c \in Configs : FLt(c.znear, c.zfar) /\ c.numberplanes = 1
                                  /\ c.numberimages = 0 /\ c.nsrc = 0}
    /\ depthmap = NoImageF /\ depthmap8u = NoImageU
    /\ depthmapdenoised \in {ImageF(x) : x \in QuantInputs}
    /\ depthmap8udenoised = NoImageU
    /\ depthmapTGV = NoImageF /\ depthmap8uTGV = NoImageU
    /\ depthavailable = FALSE
    /\ d_depthmap = "null"
    /\ pc = "quant" /\ call = "none" /\ ret = "none"
    /\ failed = FALSE /\ resetDone = FALSE
    /\ pre = Outputs
    /\ ncalls = 0
    /\ nimgs = 0 /\ i = 0
    /\ d = Fin(0) /\ dstep = Fin(0)
    /\ devbestNCC = NoScore /\ devDepth = Fin(0)
    /\ devDepthmap = Fin(0) /\ devN = Fin(0)
    /\ hyp = <<>> /\ views = <<>>
    /\ niters = 0 /\ it = 0 /\ work = Fin(0)
    /\ fold = NoFold /\ tgv = NoTGV /\ log = <<>>

\* line 359: ConvertDepthtoUChar(depthmapdenoised, depthmap8udenoised)
Quantise ==
    /\ pc = "quant"
    /\ depthmap8udenoised' \in ConvertDepthtoUChar(depthmapdenoised, cfg.znear, cfg.zfar)
    /\ pc' = "quantised"
    /\ UNCHANGED <<aside, cfg, depthmap, depthmap8u, depthmapdenoised, depthmapTGV,
                   depthmap8uTGV, depthavailable, d_depthmap, call, ret, failed,
                   resetDone, pre, ncalls, sweep, refine>>

QuantNext == Quantise
QuantSpec == QuantInit /\ [][QuantNext]_vars

(***************************************************************************)
(* The accumulation of RunAlgorithm on its own: the same source views,      *)
(* each with the pair its sweep gives, folded in two orders.                *)
(***************************************************************************)
\* line 200: the hypotheses the loop of a view evaluates, from d on (at most
\* MaxIter of them)
RECURSIVE SweepDepths(_, _, _, _)
SweepDepths(dd, step, zfar, n) ==
    IF n < MaxIter /\ FLe(dd, zfar)
    THEN <<dd>> \o SweepDepths(FAdd(dd, step), step, zfar, n + 1)
    ELSE <<>>

\* the depths a view's sweep can leave as its best depth
BestDepths(c) ==
    LET h == SweepDepths(c.znear, DStep(c.znear, c.zfar, c.numberplanes), c.zfar, 0)
    IN  {h[k] : k \in 1..Len(h)}

\* the pairs <<best NCC, best depth>> a view's sweep can leave: a score at
\* the threshold or just above it
ViewPairs(c) == {<<s, dd>> : s \in {NccThresh, NccThresh + 1}, dd \in BestDepths(c)}

\* b is a with the views at two positions exchanged
Exchanged(a, j, k) ==
    [m \in 1..Len(a) |-> IF m = j THEN a[k] ELSE IF m = k THEN a[j] ELSE a[m]]

OrderConfigs ==
    {[znear |-> Fin(One), zfar |-> Fin(3 * One), numberplanes |-> MaxPlanes,
      numberimages |-> MaxFold, nsrc |-> MaxFold]}

OrderInit ==
    /\ cfg \in OrderConfigs
    /\ \E a \in [1..MaxFold -> ViewPairs(cfg)], j \in 1..MaxFold, k \in 1..MaxFold :
          /\ j < k
          /\ fold = [NoFold EXCEPT !.a = a, !.b = Exchanged(a, j, k)]
    /\ depthmap = NoImageF /\ depthmap8u = NoImageU
    /\ depthmapdenoised = NoImageF /\ depthmap8udenoised = NoImageU
    /\ depthmapTGV = NoImageF /\ depthmap8uTGV = NoImageU
    /\ depthavailable = FALSE
    /\ d_depthmap = "null"
    /\ pc = "fold" /\ call = "none" /\ ret = "none"
    /\ failed = FALSE /\ resetDone = FALSE
    /\ pre = Outputs
    /\ ncalls = 0
    /\ nimgs = 0 /\ i = 0
    /\ d = Fin(0) /\ dstep = Fin(0)
    /\ devbestNCC = NoScore /\ devDepth = Fin(0)
    /\ devDepthmap = Fin(0) /\ devN = Fin(0)
    /\ hyp = <<>> /\ views = <<>>
    /\ niters = 0 /\ it = 0 /\ work = Fin(0)
    /\ tgv = NoTGV /\ log = <<>>

\* lines 126-127 and 253-256: the next view of each order is folded in
FoldNextView ==
    /\ pc = "fold" /\ fold.k < Len(fold.a)
    /\ fold' = [fold EXCEPT
                  !.k = fold.k + 1,
                  !.accA = FoldView(fold.accA[1], fold.accA[2],
                                    fold.a[fold.k + 1][2], fold.a[fold.k + 1][1]),
                  !.accB = FoldView(fold.accB[1], fold.accB[2],
                                    fold.b[fold.k + 1][2], fold.b[fold.k + 1][1])]
    /\ UNCHANGED <<cfg, outputs, depthavailable, d_depthmap, pc, call, ret, failed,
                   resetDone, pre, ncalls, sweep, refine, tgv, log>>

\* lines 129-131: the averaged depth of each order
AverageFolds ==
    /\ pc = "fold" /\ fold.k = Len(fold.a)
    /\ fold' = [fold EXCEPT
                  !.depthA = AveragedDepth(fold.accA[1], fold.accA[2], cfg.zfar),
                  !.depthB = AveragedDepth(fold.accB[1], fold.accB[2], cfg.zfar)]
    /\ pc' = "folded"
    /\ UNCHANGED <<cfg, outputs, depthavailable, d_depthmap, call, ret, failed,
                   resetDone, pre, ncalls, sweep, refine, tgv, log>>

OrderNext == FoldNextView \/ AverageFolds
OrderSpec == OrderInit /\ [][OrderNext]_vars

(***************************************************************************)
(* What the histories say of a finished sweep.                              *)
(***************************************************************************)
RunReturnedTrue == pc = "idle" /\ call = "RunAlgorithm" /\ ret = "true"

\* the swept views whose best score exceeded nccthresh, in processing order
IsAccepted(v) == v[1] > NccThresh
Accepted == SelectSeq(views, IsAccepted)

\* the float sum of the depths of a sequence of views, taken in order
RECURSIVE SumDepths(_)
SumDepths(s) ==
    IF s = <<>> THEN Fin(0)
    ELSE FAdd(SumDepths(SubSeq(s, 1, Len(s) - 1)), s[Len(s)][2])

\* a view has just been swept to its end; hyp holds all its hypotheses
ViewSwept == pc = "ra_view" /\ i > 0 /\ Len(hyp) > 0 /\ Len(hyp) < MaxIter

\* the highest NCC of the hypotheses and the first hypothesis that has it
HighestNcc == CHOOSE m \in {hyp[k][2] : k \in 1..Len(hyp)} :
                  \A k \in 1..Len(hyp) : hyp[k][2] <= m
FirstHighest == CHOOSE k \in 1..Len(hyp) :
                    /\ hyp[k][2] = HighestNcc
                    /\ \A j \in 1..(k - 1) : hyp[j][2] < HighestNcc

\* a failed or finished call is back at the caller
Returned == pc = "idle" /\ call # "none"

C3_FailureSignalledAndReset ==
    (Returned /\ ret # "exception") =>
        /\ ret \in {"true", "false"}
        /\ failed => (ret = "false" /\ resetDone)

\* C4: when RunAlgorithm, CudaDenoise, TGV or TGVdenoiseFromSparse returns
\* false, every output that existed before the call has the dimensions and
\* contents it had before the call.
C4_FailedCallLeavesOutputs ==
    (/\ Returned /\ ret = "false"
     /\ call \in {"RunAlgorithm", "CudaDenoise", "TGV", "TGVdenoiseFromSparse"}) =>
        \A f \in DOMAIN pre : pre[f].dim = 1 => Outputs[f] = pre[f]

\* C5: no exception reaches the caller of a stage-level function, wherever
\* the failing operation is, before the try block and inside the catch
\* handler included.
C5_NoExceptionEscapes ==
    Returned => ret # "exception"

C7_ZeroIterationsIsIdentity ==
    (/\ Returned /\ call = "CudaDenoise" /\ ret = "true" /\ niters = 0
     /\ FLt(cfg.znear, cfg.zfar)) =>
        depthmapdenoised = depthmap

C9_SweepCoversRange ==
    (ViewSwept /\ cfg.numberplanes >= 2 /\ FLt(cfg.znear, cfg.zfar)) =>
        /\ Len(hyp) = cfg.numberplanes
        /\ \A k \in 1..(Len(hyp) - 1) : FLt(hyp[k][1], hyp[k + 1][1])
        /\ FEq(hyp[1][1], cfg.znear)
        /\ FEq(hyp[Len(hyp)][1], cfg.zfar)

\* C10: with znear <= zfar and numberplanes >= 1 a RunAlgorithm call that
\* goes on executing eventually returns; the hypothesis loop of a view does
\* not run forever.
C10_RunAlgorithmReturns ==
    (pc \in {"ra_view", "ra_sweep"}) ~> (pc = "idle")

\* the views of the fold whose best score exceeded nccthresh
FoldAccepted == {m \in 1..Len(fold.a) : fold.a[m][1] > NccThresh}

\* C11 as stated: for any permutation of the same source views the sum, the
\* count and the final depth of a pixel are the same.
C11_OrderIndependent ==
    (pc = "folded") =>
        /\ fold.accA = fold.accB
        /\ fold.depthA = fold.depthB

\* C11: the count of a pixel does not depend on the order of the views, it
\* is the number of views above nccthresh; the sum and the final depth do
\* not depend on the order when at most two views are above nccthresh.
C11_CountOrderIndependent ==
    (pc = "folded") =>
        /\ fold.accA[2] = IntToFloat(Cardinality(FoldAccepted))
        /\ fold.accB[2] = fold.accA[2]
        /\ Cardinality(FoldAccepted) <= 2 =>
               (fold.accA = fold.accB /\ fold.depthA = fold.depthB)

C11_Witness ==
    /\ pc = "folded" /\ fold.a # fold.b
    /\ Cardinality(FoldAccepted) = 2
    /\ fold.accA = fold.accB /\ IsFin(fold.depthA)
    /\ \E m \in FoldAccepted : fold.a[m] # fold.b[m]

\* the source views a call has processed: the views RunAlgorithm has swept,
\* the views TGV has linearised and the views whose r it has updated
ViewsProcessed ==
    CASE call = "RunAlgorithm" -> Len(views)
      [] call = "TGV" -> Max2(Len(tgv.rzero), tgv.j)
      [] OTHER -> 0

\* C12: RunAlgorithm and TGV never process more source views than
\* numberimages nor more than the number of source views loaded, for every
\* numberimages, 0 included.
C12_ViewsCappedByNumberimages ==
    call \in {"RunAlgorithm", "TGV"} =>
        /\ ViewsProcessed <= cfg.numberimages
        /\ ViewsProcessed <= cfg.nsrc

\* C12, amended: the cap is max(numberimages, 1): the calls never process
\* more source views than that nor more than the number of views loaded.
C12_ViewsCappedAtLeastOne ==
    call \in {"RunAlgorithm", "TGV"} =>
        /\ ViewsProcessed <= Max2(cfg.numberimages, 1)
        /\ ViewsProcessed <= cfg.nsrc
C12_Witness ==
    /\ pc = "idle" /\ call = "TGV" /\ ret = "true"
    /\ tgv.warps > 0 /\ tgv.niters > 0
    /\ cfg.numberimages = 0 /\ cfg.nsrc > 1 /\ tgv.nimages = 1

\* the global pair after the views of s have been folded into new images
RECURSIVE FoldViews(_)
FoldViews(s) ==
    IF s = <<>> THEN <<Fin(0), Fin(0)>>
    ELSE LET acc == FoldViews(SubSeq(s, 1, Len(s) - 1))
             v == s[Len(s)]
         IN  FoldView(acc[1], acc[2], v[2], v[1])

\* the per-view pair after the hypotheses of h have been folded into new images
RECURSIVE FoldHyps(_)
FoldHyps(h) ==
    IF h = <<>> THEN <<NoScore, Fin(0)>>
    ELSE LET acc == FoldHyps(SubSeq(h, 1, Len(h) - 1))
             x == h[Len(h)]
         IN  SweepUpdate(acc[1], acc[2], x[2], x[1])

\* C13: in every RunAlgorithm call the global sum and count are zero before
\* the first view whatever an earlier call left, and are the result of one
\* update per processed view; in every view's sweep the per-view best score
\* and depth are initial before the first hypothesis whatever the previous
\* view left, and are the result of one update per hypothesis.
C13_AccumulatorsResetPerRun ==
    (call = "RunAlgorithm" /\ pc \in {"ra_view", "ra_sweep"}) =>
        /\ Len(views) = i
        /\ <<devDepthmap, devN>> = FoldViews(views)
        /\ (i = 0 => devDepthmap = Fin(0) /\ devN = Fin(0))
        /\ (pc = "ra_sweep" /\ Len(hyp) < MaxIter) =>
              /\ <<devbestNCC, devDepth>> = FoldHyps(hyp)
              /\ (hyp = <<>> => devbestNCC = NoScore /\ devDepth = Fin(0))
\* the second call, after a successful first one, starts the sweep of its
\* second view with the first view accepted
C13_Witness ==
    /\ ncalls = MaxCalls /\ depthavailable /\ depthmap = ResetF
    /\ pc = "ra_sweep" /\ i = 1 /\ hyp = <<>>
    /\ devN = Fin(One) /\ devDepthmap # Fin(0)

\* the launches of n iterations of CudaDenoise as the claim has them
RECURSIVE DenoiseLaunches(_)
DenoiseLaunches(n) ==
    IF n = 0 THEN <<>>
    ELSE DenoiseLaunches(n - 1) \o
         <<[op |-> "P", step |-> IF n = 1 THEN "1+sigma" ELSE "sigma"],
           [op |-> "update", step |-> "sigma"]>>

\* C14: a successful CudaDenoise has run exactly niters iterations, each the
\* P update followed by the primal update; the P update got 1 + sigma in the
\* first iteration and sigma in the later ones, the primal update sigma in
\* all of them; inside the loop the same holds of the iterations done so far.
C14_DenoiseIterations ==
    /\ (call = "CudaDenoise" /\ pc = "cd_loop") =>
           it <= niters /\ log = DenoiseLaunches(it)
    /\ (call = "CudaDenoise" /\ pc = "idle" /\ ret = "true") =>
           log = DenoiseLaunches(niters)
C14_Witness ==
    /\ call = "CudaDenoise" /\ pc = "idle" /\ ret = "true"
    /\ niters >= 2 /\ Len(log) = 2 * niters
    /\ log[1].step = "1+sigma" /\ log[3].step = "sigma"

\* TGV is inside a warp pass; at the head of the inner loop
InWarpPass == call = "TGV" /\ pc \in {"tgv_lin", "tgv_iter", "tgv_q", "tgv_s", "tgv_r"}
AtInnerLoop == call = "TGV" /\ pc = "tgv_iter"

\* C15: when a warp pass of TGV reaches its first inner iteration, Px, Py,
\* qx, qy, qz, qw, u1x, u1y, u1xbar, u1ybar and the r of every view are 0
\* at every pixel, u0 and ubar equal u, which is 1 in the first pass; inside
\* a warp pass no step writes u0.
C15_WarpPassStartsFromU ==
    /\ [](AtInnerLoop /\ tgv.it = 0 =>
             /\ \A f \in {"Px", "Py", "qx", "qy", "qz", "qw",
                          "u1x", "u1y", "u1xbar", "u1ybar"} : tgv.zero[f]
             /\ Len(tgv.rzero) = tgv.nimages
             /\ \A v \in 1..tgv.nimages : tgv.rzero[v]
             /\ tgv.u0 = tgv.u /\ tgv.ubar = tgv.u
             /\ (tgv.l = 0 => tgv.u = Fin(One)))
    /\ [][InWarpPass /\ pc' # "idle" => tgv'.u0 = tgv.u0]_vars
\* the second warp pass is at its first inner iteration, the first pass
\* having changed u
C15_Witness ==
    /\ AtInnerLoop /\ tgv.it = 0 /\ tgv.l = 1 /\ tgv.niters = MaxNiters
    /\ tgv.nimages = 2 /\ tgv.u = Fin(2 * One) /\ tgv.u0 = tgv.u

\* the launches of an inner iteration over n views as the claim has them
IterationLaunches(n) ==
    <<Launch("P", <<"ubar", "u1xbar", "u1ybar">>, <<"Px", "Py">>, 0 - 1),
      Launch("Q", <<"u1xbar", "u1ybar">>, <<"qx", "qy", "qz", "qw">>, 0 - 1),
      Launch("set_value", <<>>, <<"prodsum">>, 0 - 1)>>
    \o [k \in 1..n |-> Launch("R", <<"u", "u0">>, <<"r", "prodsum">>, k - 1)]
    \o <<Launch("U", <<"Px", "Py", "qx", "qy", "qz", "qw", "prodsum">>,
                <<"u", "u1x", "u1y", "ubar", "u1xbar", "u1ybar">>, 0 - 1)>>

\* C16: the launches of an inner iteration of TGV are, in this order, the P
\* update reading ubar, u1xbar, u1ybar, the Q update reading u1xbar, u1ybar,
\* the zeroing of prodsum, one r update per processed view, each adding into
\* prodsum, then the primal update; prodsum holds one contribution per view
\* updated so far in the running iteration and nothing else.
C16_InnerIterationOrder ==
    /\ (call = "TGV" /\ pc = "tgv_q") =>
           log = SubSeq(IterationLaunches(tgv.nimages), 1, 1)
    /\ (call = "TGV" /\ pc = "tgv_s") =>
           log = SubSeq(IterationLaunches(tgv.nimages), 1, 2)
    /\ (call = "TGV" /\ pc = "tgv_r") =>
           /\ tgv.j <= tgv.nimages
           /\ log = SubSeq(IterationLaunches(tgv.nimages), 1, 3 + tgv.j)
           /\ tgv.prodsum = [k \in 1..tgv.j |-> <<tgv.it, k - 1>>]
    /\ (AtInnerLoop /\ tgv.it > 0) =>
           /\ log = IterationLaunches(tgv.nimages)
           /\ tgv.prodsum = [k \in 1..tgv.nimages |-> <<tgv.it - 1, k - 1>>]
\* the second inner iteration of the second warp pass is over, two views
C16_Witness ==
    /\ AtInnerLoop /\ tgv.l = 1 /\ tgv.it = 2 /\ tgv.nimages = 2
    /\ Len(log) = 6 /\ tgv.prodsum = <<<<1, 0>>, <<1, 1>>>>

\* C17: a successful TGV has written depthmapTGV once, after the warp
\* passes, with u as the last inner iteration of the last pass left it;
\* before that depthmapTGV holds no result; with warps = 0 or niters = 0 the
\* exported pixel is 1.
C17_ExportsFinalU ==
    /\ (call = "TGV" /\ pc # "idle") =>
           tgv.exports = 0 /\ depthmapTGV = ResetF
    /\ (call = "TGV" /\ pc = "idle" /\ ret = "true") =>
           /\ tgv.exports = 1
           /\ depthmapTGV = ImageF(tgv.u)
           /\ (tgv.warps = 0 \/ tgv.niters = 0) => depthmapTGV = ImageF(Fin(One))
\* two warp passes of two iterations, the exported pixel is not the initial 1
C17_Witness ==
    /\ call = "TGV" /\ pc = "idle" /\ ret = "true"
    /\ tgv.warps = 2 /\ tgv.niters = 2 /\ tgv.exports = 1
    /\ depthmapTGV = ImageF(Fin(2 * One))

\* the fields a sequence of field names holds
FieldsOf(w) == {w[k] : k \in 1..Len(w)}

\* C18: in every iteration of TGVdenoiseFromSparse the primal update writes
\* u, u1x, u1y, ubar, u1xbar, u1ybar as six distinct fields, the P update
\* reads the three over-relaxed ones and the Q update the last two of them.
C18_SparseIterationAsTGV ==
    (call = "TGVdenoiseFromSparse" /\ pc = "idle" /\ ret = "true") =>
        \A k \in 1..Len(log) :
            log[k].op = "P" =>
                /\ log[k + 1].op = "Q" /\ log[k + 2].op = "U"
                /\ Cardinality(FieldsOf(log[k + 2].writes)) = 6
                /\ log[k].reads = SubSeq(log[k + 2].writes, 4, 6)
                /\ log[k + 1].reads = SubSeq(log[k + 2].writes, 5, 6)

\* C19: between calls, whenever depthavailable is true depthmap holds the
\* result of a successful RunAlgorithm, not the image a later failed
\* RunAlgorithm reset it to, and depthmap8u is the 8-bit image of depthmap.
C19_AvailableDepthIsResult ==
    (pc = "idle" /\ depthavailable) =>
        /\ depthmap # ResetF
        /\ depthmap8u \in ConvertDepthtoUChar(depthmap, cfg.znear, cfg.zfar)

\* C20: CudaDenoise or TGVdenoiseFromSparse called while depthavailable is
\* false has not returned true, has launched no iteration, has left
\* depthmapdenoised, depthmap8udenoised, depthmapTGV and depthmap8uTGV as
\* they were and, as the first call on the engine, d_depthmap unallocated.
C20_RefinersNeedDepth ==
    (pc = "idle" /\ call \in {"CudaDenoise", "TGVdenoiseFromSparse"}
       /\ ~depthavailable) =>
        /\ ret # "true"
        /\ log = <<>>
        /\ depthmapdenoised = pre.depthmapdenoised
        /\ depthmap8udenoised = pre.depthmap8udenoised
        /\ depthmapTGV = pre.depthmapTGV
        /\ depthmap8uTGV = pre.depthmap8uTGV
        /\ (ncalls = 1 => d_depthmap = "null")

\* C21: at every moment the member d_depthmap is null or refers to a buffer
\* of the current context that has not been freed, so that the next
\* cudaFree(d_depthmap) or kernel never gets a freed handle or one of a
\* context that has been reset.
C21_HandleNullOrLive == d_depthmap \in {"null", "live"}

=============================================================================
